---- MODULE Spec2Model ----
(***************************************************************************)
(* mockstep: a walking simulator that injects accelerometer readings into  *)
(* an emulator console (mockstep.py) over a marker-scanning text channel   *)
(* (telnet.py) while drawing a live terminal graph (terminal_graphs.py).   *)
(*                                                                         *)
(* Real numbers are fixed point, Scale units to 1.0.  Byte strings are     *)
(* sequences of one-character strings.  The channel handle of mockstep.py  *)
(* has the read_until / write / close interface; the repository's          *)
(* implementation of that interface is telnet.py's TelnetConnection, and   *)
(* that is what the channel operations below follow.                       *)
(***************************************************************************)
EXTENDS Integers, Sequences, FiniteSets, TLC

\* ------------------------------------------------------------------ bounds
\* chunks the peer delivers during one read_until call
MaxChunks == 2
\* loop iterations of run_simulation explored by Spec
MaxTicks == 5
\* loop iterations explored by SpecWalk (a well-behaved emulator, no interrupts)
MaxWalkTicks == 58
\* largest --sine-height / --sine-width explored
MaxSineHeight == 3
MaxSineWidth == 2
\* DataBuffer on its own: largest capacity and number of add_value calls
MaxCap == 3
MaxAdds == 5
\* plot calls on a DualGraph used on its own
MaxPlots == 2
\* widest bar of a bar graph used on its own
MaxBarWidth == 22
\* ticks of the runs that try every display option
MaxArgTicks == 1
\* ticks of the detector fed with arbitrary samples
MaxDetectTicks == 5

\* ------------------------------------------------------- program constants
\* fixed point: Scale units are 1.0
Scale == 10000
AMPLITUDE == 2
Y_BASELINE == 98000
\* frequency = 1.25 rad per tick, in Scale units
frequency == 12500
\* pi/2, pi, 3pi/2, 2pi in Scale units, and the part of 2pi below one unit
\* (in thousandths of a unit) given back once per whole period
HalfPi == 15708
Pi == 31416
ThreeHalfPi == 47124
TwoPi == 62832
TwoPiExcess == 147

\* ------------------------------------------------------------ byte strings
OK == <<"O", "K">>
KO == <<"K", "O">>

\* `expected in data` on bytes: a substring test
Contains(d, m) ==
  \E i \in 1..(Len(d) - Len(m) + 1) : SubSeq(d, i, i + Len(m) - 1) = m

\* what one successful recv(4096) may hand back: the marker whole, the marker
\* split over two chunks, a refusal, the marker with bytes after it
Chunks == { OK, KO, <<"O">>, <<"K">>, <<"O", "K", "O">> }

\* --------------------------------------------------------------- math.sin
Abs(v) == IF v < 0 THEN -v ELSE v

\* sin of an angle a in [-pi/2, pi/2], odd Taylor polynomial up to a^11
SinTaylor(a) ==
  LET m   == Abs(a)
      x2  == (m * m) \div Scale
      t3  == (m * x2) \div (6 * Scale)
      t5  == (t3 * x2) \div (20 * Scale)
      t7  == (t5 * x2) \div (42 * Scale)
      t9  == (t7 * x2) \div (72 * Scale)
      t11 == (t9 * x2) \div (110 * Scale)
      v   == m - t3 + t5 - t7 + t9 - t11
  IN  IF a < 0 THEN -v ELSE v

\* math.sin(frequency * step), in Scale units
SinStep(step) ==
  LET p  == frequency * step
      k  == p \div TwoPi
      ph == p - k * TwoPi + (k * TwoPiExcess) \div 1000
  IN  IF ph > ThreeHalfPi THEN SinTaylor(ph - TwoPi)
      ELSE IF ph > HalfPi THEN SinTaylor(Pi - ph)
      ELSE SinTaylor(ph)

\* the whole sine periods completed before tick `step`: floor(1.25 step / 2pi)
PeriodOf(step) == (frequency * step) \div TwoPi

\* generate_walking_acceleration(step) = (x, y, z)
generate_walking_acceleration(step) ==
  << 0, Y_BASELINE + AMPLITUDE * SinStep(step), 0 >>

\* f"{v:.2f}": a value rounded to hundredths (the result is in hundredths)
Fmt2(v) == (v + (Scale \div 200)) \div (Scale \div 100)

\* the text of `sensor set <sensor> <x>:<y>:<z>\n`
SensorCommand(sensor, x, y, z) ==
  << "sensor set", sensor, Fmt2(x), Fmt2(y), Fmt2(z) >>

\* the text of `auth <token>\n`
AuthCommand(token) == << "auth", token >>

\* ------------------------------------------------------------- DataBuffer
\* an absent value (None) is <<>>, a present value v is <<v>>
None == << >>
Some(v) == << v >>

\* DataBuffer.__init__(size): [0.0] * size is empty for size <= 0
DataBuffer(size) ==
  [ size |-> size, buffer |-> [i \in 1..size |-> 0], index |-> 0,
    has_data |-> FALSE ]

\* add_value raises IndexError when buffer[index] does not exist
add_value_raises(b) == b.index >= Len(b.buffer)

\* add_value: store at the cursor, advance it modulo size, mark has_data
add_value(b, value) ==
  [ b EXCEPT !.buffer = [b.buffer EXCEPT ![b.index + 1] = value],
             !.index = (b.index + 1) % b.size,
             !.has_data = TRUE ]

\* a readout in storage order, not unrotated
get_display_values_unrotated(b) == b.buffer

\* get_display_values: buffer[index:] + buffer[:index]
get_display_values(b) ==
  SubSeq(b.buffer, b.index + 1, Len(b.buffer)) \o SubSeq(b.buffer, 1, b.index)

\* get_current_value: None before any insertion, else buffer[(index - 1) % size]
get_current_value(b) ==
  IF ~b.has_data THEN None
  ELSE Some(b.buffer[((b.index - 1) % b.size) + 1])

\* -------------------------------------------------------------- DualGraph
\* len(row_labels): one label per iteration of range(height)
RowCount(height) == IF height > 0 THEN height ELSE 0

\* SineWaveGraph.__init__ divides by (height - 1) once per row
SineWaveGraphRaises(height) == height > 0 /\ height - 1 = 0

\* ShoeAnimation.shoe_states and landing_message, without the pictograms that
\* start every one of them
shoe_states ==
  [ ready |-> "Step: Ready", lifting |-> "Step: Lifting...",
    striding |-> "Step: Striding", landing |-> "Step: Landing!" ]
landing_message == "STEP LANDED!"

\* a shoe animation that tests the striding level before the landing
get_shoe_state_striding_first(sine_value, step_detected) ==
  IF sine_value >= (3 * Scale) \div 10 THEN shoe_states.striding
  ELSE IF step_detected /\ sine_value >= (5 * Scale) \div 10 THEN shoe_states.landing
  ELSE IF sine_value >= -((3 * Scale) \div 10) THEN shoe_states.lifting
  ELSE shoe_states.ready

\* get_shoe_state: landing at 0.5 and above on a detected step, else striding
\* at 0.3 and above, else lifting at -0.3 and above, else ready
get_shoe_state(sine_value, step_detected) ==
  IF step_detected /\ sine_value >= (5 * Scale) \div 10 THEN shoe_states.landing
  ELSE IF sine_value >= (3 * Scale) \div 10 THEN shoe_states.striding
  ELSE IF sine_value >= -((3 * Scale) \div 10) THEN shoe_states.lifting
  ELSE shoe_states.ready

\* get_landing_line: the landing message if step_detected, else ""
get_landing_line(step_detected) == IF step_detected THEN landing_message ELSE ""

\* ---- the bar: int((clamped - min_val) / (max_val - min_val) * width) in
\* binary floating point.  p = clamped - min_val and q = max_val - min_val are
\* taken as exact (they are for the values used here, multiples of 1/4); the
\* quotient is rounded to a 53 bit mantissa, the product is rounded again, and
\* int() truncates.
\* bits of a double's mantissa after the leading one
MantissaBits == 52

\* the e with 2^-e <= p/q < 2^(1-e), for 0 < p < q
RECURSIVE BinExp(_, _, _)
BinExp(p, q, e) == IF p * (2 ^ e) >= q THEN e ELSE BinExp(p, q, e + 1)

\* (r * 2^k) mod q, one doubling at a time
RECURSIVE ShiftMod(_, _, _)
ShiftMod(r, k, q) == IF k = 0 THEN r ELSE ShiftMod((2 * r) % q, k - 1, q)

\* the rounding error of float(p)/float(q), as the d with
\* quotient = p/q + d / (q * 2^(MantissaBits + e)): to nearest (a tie needs a
\* q beyond 2^31 and cannot occur)
DivError(p, q) ==
  LET r == ShiftMod(p % q, MantissaBits + BinExp(p, q, 0), q)
  IN IF 2 * r > q THEN q - r ELSE -r

\* the j with 2^j < n <= 2^(j+1), for n >= 1
RECURSIVE Log2Below(_, _)
Log2Below(n, j) == IF 2 ^ (j + 1) >= n THEN j ELSE Log2Below(n, j + 1)

\* int(float(p)/float(q) * w) for 0 <= p <= q, 0 < q, 0 <= w: when q divides
\* p*w the exact product is the integer n, and the result is n - 1 if the
\* quotient was rounded down by more than half a unit in the last place of
\* the product
FloatScaled(p, q, w) ==
  LET n == (p * w) \div q
      s == (p * w) % q
  IN IF p = 0 THEN 0
     ELSE IF p = q THEN w
     ELSE IF s # 0 \/ n = 0 THEN n
     ELSE IF DivError(p, q) >= 0 THEN n
     ELSE IF (-DivError(p, q)) * w * 2 >
               q * (2 ^ (BinExp(p, q, 0) + Log2Below(n, -1)))
          THEN n - 1 ELSE n

\* max(min_val, min(value, max_val))
Clamp(value, min_val, max_val) ==
  LET low == IF value < max_val THEN value ELSE max_val
  IN IF min_val > low THEN min_val ELSE low

\* BarGraph.plot: the number of '#' printed ('#' * n is empty for n <= 0)
BarGraphPlot(width, min_val, max_val, value) ==
  IF width <= 0 THEN 0
  ELSE FloatScaled(Clamp(value, min_val, max_val) - min_val, max_val - min_val, width)

\* a bar drawn from the far end of the range
DualBarFromMax(g, accel_value) ==
  IF g.bar_width <= 0 THEN 0
  ELSE FloatScaled(g.bar_max - Clamp(accel_value, g.bar_min, g.bar_max),
                   g.bar_max - g.bar_min, g.bar_width)

\* DualGraph.plot's bar: the same computation on bar_graph's fields
DualBar(g, accel_value) ==
  IF g.bar_width <= 0 THEN 0
  ELSE FloatScaled(Clamp(accel_value, g.bar_min, g.bar_max) - g.bar_min,
                   g.bar_max - g.bar_min, g.bar_width)

\* ---- the sine field
Digits == << "0", "1", "2", "3", "4", "5", "6", "7", "8", "9" >>

\* SineWaveGraph.__init__: the value of row i (0 is the top row) over (-1, 1)
RowValue(height, i) == Scale - (i * 2 * Scale) \div (height - 1)

\* SineWaveGraph.__init__: the label of row i, " 0.0 |" near zero, else
\* f"{row_value:5.2f}|"
RowLabel(height, i) ==
  LET v == RowValue(height, i)
      h == (Abs(v) + (Scale \div 200)) \div (Scale \div 100)
  IN IF Abs(v) < Scale \div 100 THEN << " ", "0", ".", "0", " ", "|" >>
     ELSE << IF v < 0 THEN "-" ELSE " ", Digits[(h \div 100) + 1], ".",
             Digits[((h \div 10) % 10) + 1], Digits[(h % 10) + 1], "|" >>

\* rounding with halves going up
RoundHalfUp(num, den) ==
  IF 2 * (num % den) >= den THEN (num \div den) + 1 ELSE num \div den

\* round(num / den): to the nearest integer, a half to the even one
Round(num, den) ==
  LET q == num \div den
      r == num % den
  IN IF 2 * r > den THEN q + 1
     ELSE IF 2 * r < den THEN q
     ELSE IF q % 2 = 0 THEN q ELSE q + 1

\* int(round(_value_to_row(value))) over the range (-1, 1):
\* (1 - (clamped + 1) / 2) * (height - 1)
RowIdx(height, value) ==
  Round((Scale - Clamp(value, -Scale, Scale)) * (height - 1), 2 * Scale)

\* trail characters with the recent mark kept one sample longer
TrailCharLate(age) ==
  IF age = 0 THEN "@" ELSE IF age < 6 THEN "o" ELSE IF age < 15 THEN ":" ELSE "."

\* the trail character of a sample: the current point, then three fainter
\* marks by age (written here in ASCII)
TrailChar(age) ==
  IF age = 0 THEN "@" ELSE IF age < 5 THEN "o" ELSE IF age < 15 THEN ":" ELSE "."

\* " " * width
Spaces(width) == [i \in 1..(IF width > 0 THEN width ELSE 0) |-> " "]

\* _render_sine_wave: every row is its label and `width` blanks; a sample at
\* position i of the display values replaces the character at
\* len(row_labels[0]) + i of its row; the row of the current value gets the
\* readout appended (readout: its value in hundredths)
RenderSineWave(g, b) ==
  LET values == get_display_values(b)
      blank(r) == RowLabel(g.sine_height, r) \o Spaces(g.sine_width)
      cell(r, c) ==
        LET i == c - 1 - Len(RowLabel(g.sine_height, 0))
        IN IF /\ b.has_data /\ i >= 0 /\ i < Len(values)
              /\ RowIdx(g.sine_height, values[i + 1]) = r
           THEN TrailChar(Len(values) - i - 1)
           ELSE blank(r)[c]
      readout(r) ==
        IF /\ get_current_value(b) # None
           /\ RowIdx(g.sine_height, get_current_value(b)[1]) = r
        THEN Some(Fmt2(get_current_value(b)[1]))
        ELSE None
  IN [ r1 \in 1..g.rows |->
         [ text |-> [c \in 1..Len(blank(r1 - 1)) |-> cell(r1 - 1, c)],
           readout |-> readout(r1 - 1) ] ]

\* DualGraph.__init__: bar_graph over bar_range, sine_graph over (-1, 1),
\* first_render = True, total_lines = 4 + sine_height
DualGraphNew(bw, bar_range, sw, sh) ==
  [ bar_width |-> bw, bar_min |-> bar_range[1], bar_max |-> bar_range[2],
    sine_width |-> sw, sine_height |-> sh,
    rows |-> RowCount(sh), first_render |-> TRUE, total_lines |-> 4 + sh ]

\* the graph variable before run_simulation has built one
NoGraph ==
  [ bar_width |-> 0, bar_min |-> 0, bar_max |-> 0,
    sine_width |-> 0, sine_height |-> 0,
    rows |-> 0, first_render |-> TRUE, total_lines |-> 0 ]

\* the terminal lines one plot call prints after the cursor movement: the bar,
\* the shoe state, the landing line, the spacer, then _render_sine_wave's rows
PlotLines(g) ==
  << "bar", "shoe", "landing", "spacer" >> \o [i \in 1..g.rows |-> "sine"]

\* the lines the cursor is moved up before printing: none on the first render
CursorUp(g) == IF g.first_render THEN 0 ELSE g.total_lines

\* the terminal before any plot call
NoTerm ==
  [ calls |-> 0, cursor_up |-> 0, lines |-> << >>, prev_lines |-> 0,
    args |-> << 0, 0, FALSE >>, bar |-> 0, shoe |-> "", landing |-> "",
    sine |-> << >>, bar_plot |-> None ]

\* the terminal after one more plot(accel_value, sine_value, step_impact) of
\* graph g, whose buffer b already holds sine_value: what was printed
TermAfterPlot(t, g, b, accel_value, sine_value, step_impact) ==
  [ calls |-> t.calls + 1, cursor_up |-> CursorUp(g), lines |-> PlotLines(g),
    prev_lines |-> Len(t.lines),
    args |-> << accel_value, sine_value, step_impact >>,
    bar |-> DualBar(g, accel_value),
    shoe |-> get_shoe_state(sine_value, step_impact),
    landing |-> get_landing_line(step_impact),
    sine |-> RenderSineWave(g, b), bar_plot |-> t.bar_plot ]

\* ----------------------------------------------------------- step detector
\* a detector with the comparison turned round
IsFallingNow(cur, prev) == cur < prev

\* a comparison that takes an unchanged sample for a rise
IsNotFalling(cur, prev) == cur >= prev

\* a detector that flags every tick that does not rise
StepDetectedOnFall(was, now) == ~now

\* is_rising_now = y > previous_y
IsRisingNow(cur, prev) == cur > prev

\* step_detected = was_rising and not is_rising_now
StepDetected(was, now) == was /\ ~now

\* ------------------------------------------------------------------ state
VARIABLES
  pc,            \* where the program is: a step of main, connect_to_emulator or run_simulation
  auth_token,    \* main's auth_token after the token file was tried
  args,          \* main's parsed --size, --bar-width, --sine-width, --sine-height
  dims,          \* main's resolved (bar_width, sine_width, sine_height)
  emulator,      \* connect_to_emulator's result: "unset", "None" or "channel"
  sock,          \* the channel's socket: "none", "open", "closed"
  peer_closed,   \* the emulator has closed its end
  data,          \* read_until's accumulated bytes
  nrecv,         \* chunks delivered during the current read_until
  response,      \* connect_to_emulator's `response`
  step_counter, previous_y, was_rising,  \* run_simulation's walking state
  y, is_rising_now, step_detected,       \* run_simulation's per-tick locals
  dual_graph,    \* the DualGraph built by run_simulation
  sine_buffer,   \* dual_graph.sine_graph.buffer
  term,          \* what the last plot call did to the terminal
  pending,       \* the exception in flight while the finally block runs
  hist           \* history: what was written, received, closed and flagged

vars ==
  << pc, args, auth_token, dims, emulator, sock, peer_closed, data, nrecv, response,
     step_counter, previous_y, was_rising, y, is_rising_now, step_detected,
     dual_graph, sine_buffer, term, pending, hist >>

chanVars == << sock, peer_closed, data, nrecv, response, emulator >>
walkVars == << step_counter, previous_y, was_rising, y, is_rising_now, step_detected >>
graphVars == << dual_graph, sine_buffer, term >>
cfgVars == << args, auth_token, dims >>

\* nothing written, received, closed, interrupted or rendered yet
NoHist ==
  [ written |-> << >>,        \* the commands passed to write(), in order
    banner_ok |-> FALSE,      \* the bytes received by the banner read contain OK
    auth_ok |-> FALSE,        \* the bytes received by the post-auth read contain OK
    auth_ko |-> FALSE,        \* ... contain KO
    eof_seen |-> FALSE,       \* a recv of the current read returned b""
    read_end |-> "none",      \* how the last read_until ended: returned, raised
    failed_read |-> "none",   \* the handshake read that raised: banner, auth
    closes |-> 0,             \* calls of emulator.close()
    written_at_close |-> 0,   \* commands written when close() was called
    interrupts |-> 0,         \* KeyboardInterrupts delivered
    exit_cause |-> "none",    \* why the loop was left: interrupt, error
    tick_failed |-> FALSE,    \* the current tick's sensor update failed
    ys |-> << >>,             \* the y handed to the detector, per tick
    flagged |-> {},           \* ticks with step_detected
    adds |-> << >>,           \* values passed to add_value, in order
    rx |-> << >>,             \* the chunks recv has delivered to the current read
    returned |-> None         \* what read_until has just returned to its caller
  ]

\* parse_args without any of the display size options
NoArgs ==
  [ size |-> "medium", bar_width |-> None, sine_width |-> None,
    sine_height |-> None ]

\* the program's state before main runs
ProgramIdle ==
  /\ args = NoArgs /\ auth_token = None /\ dims = << 0, 0, 0 >>
  /\ emulator = "unset" /\ sock = "none" /\ peer_closed = FALSE
  /\ data = << >> /\ nrecv = 0 /\ response = << >>
  /\ step_counter = 0 /\ previous_y = Y_BASELINE /\ was_rising = FALSE
  /\ y = Y_BASELINE /\ is_rising_now = FALSE /\ step_detected = FALSE
  /\ pending = "none" /\ hist = NoHist

Init ==
  /\ pc = "main"
  /\ ProgramIdle
  /\ dual_graph = NoGraph /\ sine_buffer = DataBuffer(0) /\ term = NoTerm

\* ------------------------------------------------------------------- main
\* an optional string: None, "" or a token
ArgTokens == { None, Some(""), Some("tok") }
\* the token file: missing, unreadable, or its stripped content
TokenFiles == { "missing", "unreadable", "", "tok" }

\* a token test that lets the empty string through: `auth_token is None`
IsNoneOnly(t) == t = None

\* `not auth_token`
Falsy(t) == t = None \/ t = Some("")

\* SIZE_PRESETS: (bar_width, sine_width, sine_height) by --size
SIZE_PRESETS ==
  [ small |-> << 30, 40, 7 >>, medium |-> << 50, 60, 9 >>,
    large |-> << 80, 100, 15 >>, xl |-> << 120, 150, 20 >> ]

\* an override that lets 0 fall back to the preset: `arg or preset_value`
OverrideIfTruthy(arg, preset_value) ==
  IF arg # None /\ arg[1] # 0 THEN arg[1] ELSE preset_value

\* `arg if arg is not None else preset_value`
Override(arg, preset_value) == IF arg # None THEN arg[1] ELSE preset_value

\* the display options of the runs that go through the whole program: the
\* default --size with all three dimensions given
Sizes == { "medium" }
BarWidths == { Some(4) }
SineWidths == { Some(w) : w \in 0..MaxSineWidth }
SineHeights == { Some(h) : h \in -1..MaxSineHeight }

\* main up to the call of connect_to_emulator: the parsed display options
\* (drawn from the given sets), the dimensions resolved from them, then the
\* token (--token, else the stripped token file; a missing file leaves it as
\* it was, any other failure to read it is not caught)
Main(sizes, bar_widths, sine_widths, sine_heights) ==
  /\ pc = "main"
  /\ \E size \in sizes, bw \in bar_widths, sw \in sine_widths, sh \in sine_heights :
       /\ args' = [ size |-> size, bar_width |-> bw, sine_width |-> sw,
                    sine_height |-> sh ]
       /\ dims' = << Override(bw, SIZE_PRESETS[size][1]),
                     Override(sw, SIZE_PRESETS[size][2]),
                     Override(sh, SIZE_PRESETS[size][3]) >>
  /\ \E arg \in ArgTokens, file \in TokenFiles :
       IF ~Falsy(arg) THEN auth_token' = arg /\ pc' = "open"
       ELSE IF file = "missing" THEN auth_token' = arg /\ pc' = "open"
       ELSE IF file = "unreadable" THEN auth_token' = arg /\ pc' = "crashed"
       ELSE auth_token' = Some(file) /\ pc' = "open"
  /\ UNCHANGED << chanVars, walkVars, graphVars, pending, hist >>

\* ---------------------------------------------------- connect_to_emulator
HandshakePcs == { "open", "banner_read", "check_token", "auth_write",
                  "auth_read", "check_response" }

\* the start of a read_until call: data = b""
StartRead ==
  /\ data' = << >> /\ nrecv' = 0

\* history at the start of a read_until call
HistStartRead(h) ==
  [h EXCEPT !.eof_seen = FALSE, !.read_end = "none", !.rx = << >>,
            !.returned = None]

\* history once the caller of read_until has gone on, or the read was left
HistReadDone(h) == [h EXCEPT !.rx = << >>, !.returned = None]

\* telnetlib.Telnet(host, port, timeout=10): connected, or an exception that
\* the handler turns into None
Open ==
  /\ pc = "open"
  /\ \/ /\ sock' = "open" /\ pc' = "banner_read" /\ StartRead
        /\ hist' = HistStartRead(hist)
        /\ UNCHANGED emulator
     \/ /\ emulator' = "None" /\ pc' = "done"
        /\ UNCHANGED << sock, data, nrecv, hist >>
  /\ UNCHANGED << peer_closed, response, cfgVars, walkVars, graphVars, pending >>

\* `if not auth_token: return None`
CheckToken ==
  /\ pc = "check_token"
  /\ IF Falsy(auth_token)
       THEN emulator' = "None" /\ pc' = "done"
       ELSE emulator' = emulator /\ pc' = "auth_write"
  /\ hist' = HistReadDone(hist)
  /\ UNCHANGED << sock, peer_closed, data, nrecv, response, cfgVars, walkVars,
                  graphVars, pending >>

\* emulator.write(f'auth {auth_token}\n'): sent, or an exception -> None
AuthWrite ==
  /\ pc = "auth_write"
  /\ LET h == [hist EXCEPT !.written =
         Append(@, [site |-> "auth", step |-> 0, text |-> AuthCommand(auth_token[1])])]
     IN \/ /\ pc' = "auth_read" /\ StartRead /\ hist' = HistStartRead(h)
           /\ UNCHANGED emulator
        \/ /\ pc' = "done" /\ emulator' = "None" /\ hist' = h
           /\ UNCHANGED << data, nrecv >>
  /\ UNCHANGED << sock, peer_closed, response, cfgVars, walkVars, graphVars, pending >>

\* a refusal test that looks only at the start of the response
AuthFailedAtStart(resp) == SubSeq(resp, 1, Len(KO)) = KO

\* `if b"KO" in response`
AuthFailed(resp) == Contains(resp, KO)

\* the KO test, then `return emulator`; main enters run_simulation for a channel
CheckResponse ==
  /\ pc = "check_response"
  /\ IF AuthFailed(response)
       THEN emulator' = "None" /\ pc' = "done"
       ELSE emulator' = "channel" /\ pc' = "sim_init"
  /\ response' = << >>
  /\ hist' = HistReadDone(hist)
  /\ UNCHANGED << sock, peer_closed, data, nrecv, cfgVars, walkVars, graphVars,
                  pending >>

\* ------------------------------------------------------------ read_until
ReadPcs == { "banner_read", "auth_read", "tick_read", "cleanup_read" }

\* a loop test that stops on enough bytes, whatever they are
MarkerSeenByLength(d, expected) == Len(d) >= Len(expected)

\* the loop test of read_until, negated: `expected in data`
MarkerSeen(d, expected) == Contains(d, expected)

\* where the caller goes on when read_until returns
AfterRead(p) ==
  CASE p = "banner_read" -> "check_token"
    [] p = "auth_read" -> "check_response"
    [] p = "tick_read" -> "tick_plot"
    [] p = "cleanup_read" -> "close"

\* where control goes when read_until raises: connect_to_emulator's handler
\* returns None, set_sensor_data's handler logs and returns to its caller
AfterRaise(p) ==
  CASE p \in { "banner_read", "auth_read" } -> "done"
    [] p = "tick_read" -> "tick_plot"
    [] p = "cleanup_read" -> "close"

\* history of the bytes a handshake read has received so far
HistReceived(h, p, d) ==
  [h EXCEPT !.banner_ok = IF p = "banner_read" THEN Contains(d, OK) ELSE @,
            !.auth_ok = IF p = "auth_read" THEN Contains(d, OK) ELSE @,
            !.auth_ko = IF p = "auth_read" THEN Contains(d, KO) ELSE @]

\* an accumulator that keeps the last chunk only: `data = recv(4096)`
AccumulateLast(d, c) == c

\* `data += self.sock.recv(4096)`
Accumulate(d, c) == d \o c

\* data += recv(4096) with bytes delivered, then the loop test
RecvChunk ==
  /\ pc \in ReadPcs /\ sock = "open" /\ ~peer_closed /\ nrecv < MaxChunks
  /\ \E c \in Chunks :
       LET d == Accumulate(data, c)
           h == [HistReceived(hist, pc, d) EXCEPT !.rx = Append(@, c)]
       IN
       IF MarkerSeen(d, OK)
         THEN /\ pc' = AfterRead(pc)
              /\ data' = << >> /\ nrecv' = 0
              /\ response' = IF pc = "auth_read" THEN d ELSE response
              /\ hist' = [h EXCEPT !.read_end = "returned", !.returned = Some(d)]
         ELSE /\ pc' = pc
              /\ data' = d /\ nrecv' = nrecv + 1
              /\ response' = response
              /\ hist' = h
  /\ UNCHANGED << sock, peer_closed, emulator, cfgVars, walkVars, graphVars, pending >>

\* recv raises instead of returning: socket.timeout when nothing arrives in
\* time, or a connection reset
RecvRaises ==
  /\ pc \in ReadPcs /\ sock = "open" /\ ~peer_closed
  /\ \E kind \in { "timeout", "reset" } :
       /\ hist' = [HistReadDone(hist) EXCEPT !.read_end = kind,
                     !.failed_read = IF pc = "banner_read" THEN "banner"
                                     ELSE IF pc = "auth_read" THEN "auth" ELSE @,
                     !.tick_failed = IF pc = "tick_read" THEN TRUE ELSE @]
  /\ pc' = AfterRaise(pc)
  /\ emulator' = IF pc \in { "banner_read", "auth_read" } THEN "None" ELSE emulator
  /\ data' = << >> /\ nrecv' = 0
  /\ UNCHANGED << sock, peer_closed, response, cfgVars, walkVars, graphVars, pending >>

\* the peer has closed: recv returns b"", data is unchanged and the loop test
\* sends read_until back to recv
RecvEof ==
  /\ pc \in ReadPcs /\ sock = "open"
  /\ peer_closed' = TRUE
  /\ hist' = [hist EXCEPT !.eof_seen = TRUE]
  /\ UNCHANGED << pc, sock, data, nrecv, response, emulator, cfgVars, walkVars,
                  graphVars, pending >>

\* ---------------------------------------------------------- run_simulation
\* the try block: an exception raised here runs the finally block
TryPcs == { "tick_write", "tick_read", "tick_plot", "tick_update" }
\* the finally block
FinallyPcs == { "cleanup_write", "cleanup_read", "close" }

\* a reset that sends the last generated reading again
ResetCommandLastReading == SensorCommand("acceleration", 0, y, 0)

\* set_sensor_data(emulator, "acceleration", 0, 9.8, 0)
ResetCommand == SensorCommand("acceleration", 0, Y_BASELINE, 0)

\* bar_range = (Y_BASELINE - AMPLITUDE, Y_BASELINE + AMPLITUDE)
BarRange == << Y_BASELINE - AMPLITUDE * Scale, Y_BASELINE + AMPLITUDE * Scale >>

\* run_simulation up to the try: the walking state, then DualGraph(...), whose
\* SineWaveGraph may raise; nothing catches that
SimInit ==
  /\ pc = "sim_init"
  /\ step_counter' = 0 /\ previous_y' = Y_BASELINE /\ was_rising' = FALSE
  /\ IF SineWaveGraphRaises(dims[3])
       THEN /\ pc' = "crashed"
            /\ UNCHANGED << dual_graph, sine_buffer >>
       ELSE /\ pc' = "tick_write"
            /\ dual_graph' = DualGraphNew(dims[1], BarRange, dims[2], dims[3])
            /\ sine_buffer' = DataBuffer(dims[2])
  /\ UNCHANGED << chanVars, cfgVars, y, is_rising_now, step_detected, term,
                  pending, hist >>

\* generate_walking_acceleration(step_counter), then set_sensor_data's write:
\* sent, or an exception that set_sensor_data logs and swallows
TickWrite(limit) ==
  /\ pc = "tick_write" /\ step_counter < limit
  /\ LET g == generate_walking_acceleration(step_counter)
         h == [hist EXCEPT !.tick_failed = FALSE, !.written =
                 Append(@, [site |-> "tick", step |-> step_counter,
                            text |-> SensorCommand("acceleration", g[1], g[2], g[3])])]
     IN /\ y' = g[2]
        /\ \/ /\ pc' = "tick_read" /\ StartRead /\ hist' = HistStartRead(h)
           \/ /\ pc' = "tick_plot" /\ UNCHANGED << data, nrecv >>
              /\ hist' = [h EXCEPT !.tick_failed = TRUE]
  /\ UNCHANGED << sock, peer_closed, response, emulator, cfgVars, step_counter,
                  previous_y, was_rising, is_rising_now, step_detected, graphVars,
                  pending >>

\* the sine value, the step detection and dual_graph.plot(y, sine_value,
\* step_detected): add_value first, then the frame; an exception of add_value
\* leaves the try block for the finally block
TickPlot ==
  /\ pc = "tick_plot"
  /\ LET sine_value == SinStep(step_counter)
         now == IsRisingNow(y, previous_y)
         det == StepDetected(was_rising, now)
     IN /\ is_rising_now' = now /\ step_detected' = det
        /\ IF add_value_raises(sine_buffer)
             THEN /\ pc' = "cleanup_write" /\ pending' = "error"
                  /\ hist' = [HistReadDone(hist) EXCEPT !.exit_cause = "error",
                                !.ys = Append(@, y),
                                !.flagged = IF det THEN @ \cup { step_counter } ELSE @]
                  /\ UNCHANGED graphVars
             ELSE /\ pc' = "tick_update" /\ pending' = pending
                  /\ sine_buffer' = add_value(sine_buffer, sine_value)
                  /\ term' = TermAfterPlot(term, dual_graph,
                                add_value(sine_buffer, sine_value),
                                y, sine_value, det)
                  /\ dual_graph' = [dual_graph EXCEPT !.first_render = FALSE]
                  /\ hist' = [HistReadDone(hist) EXCEPT !.ys = Append(@, y),
                                !.adds = Append(@, sine_value),
                                !.flagged = IF det THEN @ \cup { step_counter } ELSE @]
  /\ UNCHANGED << chanVars, cfgVars, step_counter, previous_y, was_rising, y >>

\* a counter that skips a number
IncrementByTwo(step) == step + 2

\* `step_counter += 1`
Increment(step) == step + 1

\* was_rising = is_rising_now; previous_y = y; step_counter += 1; sleep
TickUpdate ==
  /\ pc = "tick_update"
  /\ was_rising' = is_rising_now
  /\ previous_y' = y
  /\ step_counter' = Increment(step_counter)
  /\ pc' = "tick_write"
  /\ UNCHANGED << chanVars, cfgVars, y, is_rising_now, step_detected, graphVars,
                  pending, hist >>

\* the finally block's set_sensor_data: the reset is written; sent, or an
\* exception that set_sensor_data logs and swallows
CleanupWrite ==
  /\ pc = "cleanup_write"
  /\ LET h == [hist EXCEPT !.written =
                 Append(@, [site |-> "cleanup", step |-> step_counter,
                            text |-> ResetCommand])]
     IN \/ /\ pc' = "cleanup_read" /\ StartRead /\ hist' = HistStartRead(h)
        \/ /\ pc' = "close" /\ hist' = h /\ UNCHANGED << data, nrecv >>
  /\ UNCHANGED << sock, peer_closed, response, emulator, cfgVars, walkVars,
                  graphVars, pending >>

\* emulator.close(); then the pending exception, if any, leaves run_simulation
Close ==
  /\ pc = "close"
  /\ sock' = "closed"
  /\ hist' = [HistReadDone(hist) EXCEPT !.closes = @ + 1,
                !.written_at_close = Len(hist.written)]
  /\ pc' = IF pending # "none" THEN "crashed" ELSE "done"
  /\ UNCHANGED << peer_closed, data, nrecv, response, emulator, cfgVars, walkVars,
                  graphVars, pending >>

\* `except KeyboardInterrupt: print("\n\nStopping simulation.")`, then on to
\* the finally block
Stopping ==
  /\ pc = "stopping"
  /\ pc' = "cleanup_write"
  /\ UNCHANGED << chanVars, cfgVars, walkVars, graphVars, pending, hist >>

\* KeyboardInterrupt, at any point of the run.  Inside the try block it is
\* caught by the handler; inside the handler it stays in flight while the
\* finally block runs.  It is not an Exception, so neither
\* connect_to_emulator's nor set_sensor_data's handler catches it, and
\* anywhere else (the finally block included) it ends the program at once
Interrupt ==
  /\ pc \notin { "done", "crashed" }
  /\ pc' = IF pc \in TryPcs THEN "stopping"
           ELSE IF pc = "stopping" THEN "cleanup_write"
           ELSE "crashed"
  /\ pending' = IF pc = "stopping" THEN "interrupt" ELSE pending
  /\ hist' = [HistReadDone(hist) EXCEPT !.interrupts = @ + 1,
                !.exit_cause = IF pc \in TryPcs THEN "interrupt" ELSE @]
  /\ data' = << >> /\ nrecv' = 0
  /\ UNCHANGED << sock, peer_closed, response, emulator, cfgVars, walkVars,
                  graphVars >>

\* ------------------------------------------------------------ the program
Next ==
  \/ Main(Sizes, BarWidths, SineWidths, SineHeights)
  \/ Open
  \/ CheckToken
  \/ AuthWrite
  \/ CheckResponse
  \/ RecvChunk
  \/ RecvRaises
  \/ RecvEof
  \/ SimInit
  \/ TickWrite(MaxTicks)
  \/ TickPlot
  \/ TickUpdate
  \/ Stopping
  \/ CleanupWrite
  \/ Close
  \/ Interrupt

Spec == Init /\ [][Next]_vars

\* ------------------------------------------------- properties of the run
\* the sites of the commands written so far
SitesWritten == { hist.written[i].site : i \in 1..Len(hist.written) }
\* the positions of the cleanup's commands among the commands written
CleanupWrites == { i \in 1..Len(hist.written) : hist.written[i].site = "cleanup" }
\* the text of `sensor set acceleration 0.00:9.80:0.00`
NeutralText == << "sensor set", "acceleration", 0, 980, 0 >>
\* the loop was left by one user interruption, the only one of the run
InterruptedOnce == hist.exit_cause = "interrupt" /\ hist.interrupts = 1

\* C1: after a user interruption of the loop (the run's only one), whatever
\* the number of ticks executed, the cleanup writes exactly one command, the
\* neutral reading 0.00:9.80:0.00; it is the last command ever written, it is
\* written while the channel is still open, and the channel is closed after it.
C1_ResetOnceBeforeClose ==
  InterruptedOnce =>
    /\ pc \in { "stopping", "cleanup_write", "cleanup_read", "close", "done" }
    /\ pc \in { "stopping", "cleanup_write" } => CleanupWrites = {} /\ hist.closes = 0
    /\ pc \in { "cleanup_read", "close", "done" } =>
         /\ CleanupWrites = { Len(hist.written) }
         /\ hist.written[Len(hist.written)].text = NeutralText
    /\ pc \in { "cleanup_read", "close" } => hist.closes = 0 /\ sock = "open"
    /\ pc = "done" =>
         /\ hist.closes = 1 /\ sock = "closed"
         /\ hist.written_at_close = Len(hist.written)

\* C1 witness: the loop was interrupted during its third tick and the run
\* ended with the reset written and the channel closed
C1_Witness ==
  /\ InterruptedOnce /\ pc = "done" /\ step_counter = 2
  /\ Len(hist.written) = 5 /\ term.calls = 2

\* C2: a run whose handshake returned a channel has closed it exactly once
\* when the run ends, however run_simulation was left.
C2_ClosedExactlyOnce ==
  (emulator = "channel" /\ pc \in { "done", "crashed" }) => hist.closes = 1

\* C3: once the bytes received after `auth` contain KO, connect_to_emulator
\* does not return a channel, run_simulation is never entered and no
\* `sensor set` is written; the handshake ends with None.
C3_RefusedNeverSimulates ==
  hist.auth_ko =>
    /\ emulator # "channel"
    /\ pc \in { "auth_read", "check_response", "done", "crashed" }
    /\ SitesWritten \subseteq { "auth" }
    /\ pc = "done" => emulator = "None"
    /\ pc = "crashed" => hist.interrupts > 0

\* C3 witness: a response with both KO and OK in it was read to its end and
\* the handshake returned None
C3_Witness ==
  /\ hist.auth_ko /\ hist.auth_ok /\ hist.read_end = "returned"
  /\ pc = "done" /\ emulator = "None"

C5_NoTokenNoAuth ==
  (pc # "main" /\ auth_token \in { None, Some("") }) =>
    /\ hist.written = << >>
    /\ emulator # "channel"
    /\ pc \in { "open", "banner_read", "check_token", "done", "crashed" }
    /\ pc = "crashed" => (hist.interrupts > 0 \/ sock = "none")
    /\ pc = "done" => emulator = "None"
    /\ (pc = "done" /\ sock = "open") =>
         (hist.banner_ok \/ hist.failed_read = "banner")

\* C5 witness: the banner was read, the empty token was found missing and the
\* handshake returned None
C5_Witness ==
  /\ auth_token = Some("") /\ pc = "done" /\ emulator = "None"
  /\ hist.banner_ok /\ sock = "open"

C7_ReadEndsOnPeerClose ==
  hist.eof_seen => pc \notin ReadPcs

\* C9: every plot call prints total_lines = 4 + sine_height lines (bar, shoe,
\* landing, spacer, then the sine rows); the first moves the cursor up by
\* nothing, every later one by the number of lines the call before it printed;
\* first_render is true exactly until the first call.
C9_FrameLineCount ==
  /\ dual_graph.first_render <=> term.calls = 0
  /\ term.calls >= 1 =>
       /\ Len(term.lines) = 4 + dual_graph.sine_height
       /\ Len(term.lines) = dual_graph.total_lines
       /\ SubSeq(term.lines, 1, 4) = << "bar", "shoe", "landing", "spacer" >>
       /\ \A i \in 5..Len(term.lines) : term.lines[i] = "sine"
  /\ term.calls = 1 => term.cursor_up = 0
  /\ term.calls >= 2 => term.cursor_up = term.prev_lines

\* ------------------------------------------------- a DataBuffer on its own
\* the samples inserted: the ends of the sine range and the zero the buffer
\* is filled with
SampleValues == { -Scale, 0, Scale }

\* DataBuffer(n) for a capacity n >= 1, nothing inserted yet
InitBuf ==
  /\ pc = "buffer"
  /\ ProgramIdle
  /\ dual_graph = NoGraph /\ term = NoTerm
  /\ \E n \in 1..MaxCap : sine_buffer = DataBuffer(n)

\* one add_value call
BufAdd ==
  /\ pc = "buffer" /\ Len(hist.adds) < MaxAdds
  /\ \E v \in SampleValues :
       /\ sine_buffer' = add_value(sine_buffer, v)
       /\ hist' = [hist EXCEPT !.adds = Append(@, v)]
  /\ UNCHANGED << pc, chanVars, cfgVars, walkVars, dual_graph, term, pending >>

NextBuf == BufAdd

SpecBuf == InitBuf /\ [][NextBuf]_vars

\* C8: after m add_value calls on a buffer of capacity N >= 1,
\* get_display_values has N values: N - min(m, N) zeros, then the last
\* min(m, N) inserted values, oldest first; get_current_value is None for
\* m = 0 and the last inserted value otherwise.
C8_BufferHoldsLastN ==
  pc = "buffer" =>
    LET N == sine_buffer.size
        m == Len(hist.adds)
        k == IF m < N THEN m ELSE N
        shown == get_display_values(sine_buffer)
    IN /\ Len(shown) = N
       /\ \A i \in 1..N :
            shown[i] = IF i <= N - k THEN 0 ELSE hist.adds[m - N + i]
       /\ get_current_value(sine_buffer) =
            IF m = 0 THEN << >> ELSE << hist.adds[m] >>

\* C8 witness: a buffer of capacity 3 after 5 insertions, the cursor wrapped
\* and mid-buffer, holding three different values
C8_Witness ==
  /\ pc = "buffer" /\ sine_buffer.size = 3 /\ Len(hist.adds) = 5
  /\ sine_buffer.index = 2
  /\ SubSeq(hist.adds, 3, 5) = << -Scale, 0, Scale >>

\* ------------------------------------- the loop against a live emulator
\* the program as run_simulation enters its loop after a successful handshake
InitWalk ==
  /\ pc = "tick_write"
  /\ args = [ size |-> "medium", bar_width |-> Some(4), sine_width |-> Some(2),
              sine_height |-> Some(3) ]
  /\ auth_token = Some("tok") /\ dims = << 4, 2, 3 >>
  /\ emulator = "channel" /\ sock = "open" /\ peer_closed = FALSE
  /\ data = << >> /\ nrecv = 0 /\ response = << >>
  /\ step_counter = 0 /\ previous_y = Y_BASELINE /\ was_rising = FALSE
  /\ y = Y_BASELINE /\ is_rising_now = FALSE /\ step_detected = FALSE
  /\ dual_graph = DualGraphNew(4, BarRange, 2, 3) /\ sine_buffer = DataBuffer(2)
  /\ term = NoTerm /\ pending = "none"
  /\ hist = [NoHist EXCEPT
       !.written = << [site |-> "auth", step |-> 0, text |-> AuthCommand("tok")] >>,
       !.banner_ok = TRUE, !.auth_ok = TRUE, !.read_end = "returned"]

NextWalk ==
  \/ TickWrite(MaxWalkTicks)
  \/ RecvChunk
  \/ RecvRaises
  \/ RecvEof
  \/ TickPlot
  \/ TickUpdate

SpecWalk == InitWalk /\ [][NextWalk]_vars

\* the y of tick t as the detector saw it; the seed 9.8 before tick 0
SeenY(t) == IF t < 0 THEN 98000 ELSE hist.ys[t + 1]
\* the sample of tick t is a local maximum: above its predecessor, not below
\* its successor
LocalMax(t) == SeenY(t) > SeenY(t - 1) /\ ~(SeenY(t + 1) > SeenY(t))

\* C10: on the generator's y sequence the detector flags a tick exactly when
\* the tick before it was a local maximum of the samples, and every full
\* period of sin(1.25 s) holds exactly one flagged tick.
C10_OneStepPerPeriod ==
  LET n == Len(hist.ys) IN
  /\ \A t \in 0..(n - 1) :
       (t \in hist.flagged) <=> (t >= 1 /\ LocalMax(t - 1))
  /\ hist.flagged \subseteq 0..(n - 1)
  /\ n >= 1 =>
       \A k \in 0..(PeriodOf(n - 1) - 1) :
         Cardinality({ t \in hist.flagged : PeriodOf(t) = k }) = 1

\* C10 witness: ten periods in, the sampled maxima have slipped by one tick:
\* ticks 47 and 53 are flagged, six ticks apart
C10_Witness ==
  /\ { 2, 7, 47, 53 } \subseteq hist.flagged
  /\ Cardinality(hist.flagged) = 11
  /\ PeriodOf(Len(hist.ys) - 1) = 11 /\ Len(hist.ys) = 57

\* ------------------------------------------------- DualGraph on its own
\* A DualGraph as run_simulation builds it (sine range (-1, 1), any bar
\* range), plotted with arbitrary arguments.
GraphWidths == { 1, 3, 16 }
GraphHeights == { 2, 3, 5 }
\* sine values on both sides of the shoe levels and of the row boundaries
GraphSines ==
  { -Scale, -(Scale \div 2), -((3 * Scale) \div 10) - 1, -((3 * Scale) \div 10),
    0, ((3 * Scale) \div 10) - 1, (3 * Scale) \div 10, (Scale \div 2) - 1,
    Scale \div 2, Scale }

InitGraph ==
  /\ pc = "graph"
  /\ ProgramIdle
  /\ \E sw \in GraphWidths, sh \in GraphHeights :
       /\ dual_graph = DualGraphNew(4, BarRange, sw, sh)
       /\ sine_buffer = DataBuffer(sw)
  /\ term = NoTerm

\* dual_graph.plot(accel_value, sine_value, step_impact) with arguments drawn
\* from the given sets: add_value, then the frame
GraphPlot(accels, sines, limit) ==
  /\ pc = "graph" /\ term.calls < limit
  /\ ~add_value_raises(sine_buffer)
  /\ \E a \in accels, v \in sines, impact \in BOOLEAN :
       /\ sine_buffer' = add_value(sine_buffer, v)
       /\ term' = TermAfterPlot(term, dual_graph, add_value(sine_buffer, v),
                                a, v, impact)
       /\ hist' = [hist EXCEPT !.adds = Append(@, v)]
  /\ dual_graph' = [dual_graph EXCEPT !.first_render = FALSE]
  /\ UNCHANGED << pc, chanVars, walkVars, cfgVars, pending >>

NextGraph == GraphPlot({ Y_BASELINE }, GraphSines, MaxPlots)

SpecGraph == InitGraph /\ [][NextGraph]_vars

\* C11: the shoe line of a frame is a function of the plot call's sine value
\* and step flag alone, whatever was plotted before: Landing! when the flag is
\* set and the sine value is at least 0.5; otherwise Striding from 0.3,
\* Lifting... from -0.3, Ready below; a set flag below 0.5 changes nothing.
C11_ShoeStateTable ==
  term.calls > 0 =>
    LET s == term.args[2]
        byLevel == IF 10 * s >= 3 * Scale THEN "Step: Striding"
                   ELSE IF 10 * s >= -3 * Scale THEN "Step: Lifting..."
                   ELSE "Step: Ready"
    IN /\ (term.args[3] /\ 2 * s >= Scale) => term.shoe = "Step: Landing!"
       /\ ~(term.args[3] /\ 2 * s >= Scale) => term.shoe = byLevel

\* a second frame with the flag set exactly at 0.5 shows Landing!
C11_Witness ==
  /\ term.calls = 2 /\ term.args[3] /\ term.args[2] = Scale \div 2
  /\ term.shoe = "Step: Landing!"

\* ---------------------------------------------------- the bar on its own
\* A DualGraph and its bar_graph, a BarGraph of width 0..MaxBarWidth over a
\* range with whole ends, plotted with multiples of 1/2 from below the range
\* to above it: all of them exact as binary floating point numbers.
BarRanges == { << 0, 10 * Scale >>, << -Scale, 10 * Scale >>, << -3 * Scale, 2 * Scale >> }
BarValues == { k * (Scale \div 2) : k \in -8..22 }

InitBar ==
  /\ pc = "graph"
  /\ ProgramIdle
  /\ \E bw \in 0..MaxBarWidth, range \in BarRanges :
       dual_graph = DualGraphNew(bw, range, 1, 2)
  /\ sine_buffer = DataBuffer(1)
  /\ term = NoTerm

\* dual_graph.bar_graph.plot(value): one line, the bar; term.bar_plot keeps
\* the value and the number of '#'
BarPlot ==
  /\ pc = "graph" /\ term.bar_plot = None
  /\ \E value \in BarValues :
       term' = [term EXCEPT !.bar_plot =
                  Some(<< value, BarGraphPlot(dual_graph.bar_width, dual_graph.bar_min,
                                              dual_graph.bar_max, value) >>)]
  /\ UNCHANGED << pc, chanVars, walkVars, cfgVars, pending, hist, dual_graph,
                  sine_buffer >>

NextBar == BarPlot \/ GraphPlot(BarValues, { 0 }, 1)

SpecBar == InitBar /\ [][NextBar]_vars

\* C12: a bar of width W over [minVal, maxVal] drawn for v is
\* floor(W * (clamp(v) - minVal) / (maxVal - minVal)) characters long (hence 0
\* up to minVal, W from maxVal, floor(W/2) at the midpoint, never outside 0..W,
\* never shorter for a larger v), by BarGraph.plot and by DualGraph.plot
\* alike.
C12_BarLength ==
  LET W == dual_graph.bar_width
      lo == dual_graph.bar_min
      hi == dual_graph.bar_max
      clamped(v) == IF v < lo THEN lo ELSE IF v > hi THEN hi ELSE v
      exact(v) == (W * (clamped(v) - lo)) \div (hi - lo)
  IN /\ term.bar_plot # None => term.bar_plot[1][2] = exact(term.bar_plot[1][1])
     /\ term.calls > 0 => term.bar = exact(term.args[1])

\* ------------------------------------------- every display option of main
\* The whole program again, started with any --size and with each dimension
\* left out, given as 0, or given as a value no preset has; the loop is cut
\* after MaxArgTicks ticks.
ArgSizes == DOMAIN SIZE_PRESETS
ArgBarWidths == { None, Some(0), Some(99) }
ArgSineWidths == { None, Some(0), Some(2) }
ArgSineHeights == { None, Some(0), Some(3) }

NextArgs ==
  \/ Main(ArgSizes, ArgBarWidths, ArgSineWidths, ArgSineHeights)
  \/ Open
  \/ CheckToken
  \/ AuthWrite
  \/ CheckResponse
  \/ RecvChunk
  \/ RecvRaises
  \/ RecvEof
  \/ SimInit
  \/ TickWrite(MaxArgTicks)
  \/ TickPlot
  \/ TickUpdate
  \/ Stopping
  \/ CleanupWrite
  \/ Close
  \/ Interrupt

SpecArgs == Init /\ [][NextArgs]_vars

\* C13: once main has resolved them, each dimension is the override given on
\* the command line (0 included), else the value of the chosen preset; large
\* with --bar-width 99 gives (99, 100, 15), small alone (30, 40, 7); the
\* graph is built with exactly these dimensions and they never change.
C13_ResolvedDimensions ==
  LET preset == CASE args.size = "small" -> << 30, 40, 7 >>
                  [] args.size = "medium" -> << 50, 60, 9 >>
                  [] args.size = "large" -> << 80, 100, 15 >>
                  [] args.size = "xl" -> << 120, 150, 20 >>
      want(i, given) == IF given = None THEN preset[i] ELSE given[1]
      resolved == << want(1, args.bar_width), want(2, args.sine_width),
                     want(3, args.sine_height) >>
  IN (pc \notin { "main", "crashed" } \/ dual_graph # NoGraph) =>
       /\ dims = resolved
       /\ ( /\ args.size = "large" /\ args.bar_width = Some(99)
            /\ args.sine_width = None /\ args.sine_height = None )
            => dims = << 99, 100, 15 >>
       /\ ( /\ args.size = "small" /\ args.bar_width = None
            /\ args.sine_width = None /\ args.sine_height = None )
            => dims = << 30, 40, 7 >>
       /\ dual_graph # NoGraph =>
            /\ << dual_graph.bar_width, dual_graph.sine_width,
                  dual_graph.sine_height >> = resolved
            /\ sine_buffer.size = resolved[2]

\* large with --bar-width 0 has drawn a frame with a bar of width 0 over the
\* preset's 100 by 15 field
C13_Witness ==
  /\ pc = "tick_update" /\ term.calls = 1
  /\ args.size = "large" /\ args.bar_width = Some(0)
  /\ args.sine_width = None /\ args.sine_height = None
  /\ dual_graph.bar_width = 0 /\ dual_graph.sine_width = 100
  /\ dual_graph.sine_height = 15

\* ------------------------------------------ the detector on any samples
\* run_simulation's loop from its entry, with the tick's y drawn from a set
\* in place of the generator's value (and nothing sent): below, at and above
\* the baseline.
DetectYs == { Y_BASELINE - Scale, Y_BASELINE, Y_BASELINE + Scale }

\* `x, y, z = ...` with an arbitrary y
FeedY ==
  /\ pc = "tick_write" /\ step_counter < MaxDetectTicks
  /\ y' \in DetectYs
  /\ pc' = "tick_plot"
  /\ UNCHANGED << chanVars, cfgVars, step_counter, previous_y, was_rising,
                  is_rising_now, step_detected, graphVars, pending, hist >>

NextDetect == FeedY \/ TickPlot \/ TickUpdate

SpecDetect == InitWalk /\ [][NextDetect]_vars

\* the sample of tick t, the baseline standing in for tick -1
C14_Y(t) == IF t < 0 THEN 98000 ELSE hist.ys[t + 1]
\* sample t is above sample t - 1 (never so before tick 0)
C14_Rose(t) == t >= 0 /\ C14_Y(t) > C14_Y(t - 1)

\* C14: for any sample sequence with y(-1) = 9.8, at the start of tick t
\* previous_y is y(t-1) and was_rising is y(t-1) > y(t-2) (false at tick 0);
\* tick t is flagged exactly when y(t-1) > y(t-2) and not y(t) > y(t-1),
\* equality counting as not rising; the flag is computed before previous_y
\* and was_rising are overwritten.
C14_DetectorRecurrence ==
  /\ pc \in { "tick_write", "tick_plot" } =>
       /\ Len(hist.ys) = step_counter
       /\ previous_y = C14_Y(step_counter - 1)
       /\ was_rising = C14_Rose(step_counter - 1)
  /\ \A t \in 0..(Len(hist.ys) - 1) :
       t \in hist.flagged <=> (C14_Rose(t - 1) /\ ~C14_Rose(t))
  /\ pc = "tick_update" =>
       /\ Len(hist.ys) = step_counter + 1
       /\ previous_y = C14_Y(step_counter - 1)
       /\ was_rising = C14_Rose(step_counter - 1)
       /\ is_rising_now = C14_Rose(step_counter)
       /\ step_detected = (C14_Rose(step_counter - 1) /\ ~C14_Rose(step_counter))

\* a rise at tick 0, then the same sample again: tick 1 is flagged
C14_Witness ==
  /\ pc = "tick_update" /\ step_counter = 1 /\ step_detected
  /\ hist.ys = << 98000 + Scale, 98000 + Scale >>
  /\ hist.flagged = { 1 }

\* C18: whatever the samples, the tick that has just been judged is flagged
\* neither at tick 0 nor right after a flagged tick; its frame shows the
\* landing line exactly when it is flagged, so the landing line is neither in
\* the first frame nor in two frames in a row.
C18_NoTwoLandingsInARow ==
  [][ Len(hist'.ys) = Len(hist.ys) + 1 =>
        /\ step_detected' => (step_counter # 0 /\ ~step_detected)
        /\ step_detected' <=> (step_counter \in hist'.flagged)
        /\ step_counter - 1 \in hist.flagged <=> (step_counter > 0 /\ step_detected)
        /\ term'.calls = term.calls + 1 =>
             /\ term'.landing # "" <=> step_detected'
             /\ term'.landing # "" => (term.calls # 0 /\ term.landing = "")
    ]_vars

\* two landing lines so far, the second in the frame now on the terminal
C18_Witness ==
  /\ pc = "tick_update" /\ term.landing # "" /\ step_detected
  /\ Cardinality(hist.flagged) = 2 /\ term.calls = step_counter + 1

\* the chunks of cs, one after the other
RECURSIVE C15_Concat(_)
C15_Concat(cs) == IF cs = << >> THEN << >> ELSE Head(cs) \o C15_Concat(Tail(cs))
\* d holds O followed by K
C15_HasOK(d) == \E i \in 1..(Len(d) - 1) : d[i] = "O" /\ d[i + 1] = "K"

\* C15: what read_until returns is the concatenation, in arrival order, of
\* every chunk it received, bytes after the marker included; it holds the
\* marker, and the chunks before the last one did not yet (nothing is
\* received once the marker is there); the post-auth caller gets exactly it.
C15_ReadUntilReturnsAllChunks ==
  hist.returned # None =>
    /\ hist.rx # << >>
    /\ hist.returned[1] = C15_Concat(hist.rx)
    /\ C15_HasOK(hist.returned[1])
    /\ ~C15_HasOK(C15_Concat(SubSeq(hist.rx, 1, Len(hist.rx) - 1)))
    /\ pc = "check_response" => response = hist.returned[1]

\* the post-auth read got K, then OKO in one chunk, and returned KOKO
C15_Witness ==
  /\ pc = "check_response"
  /\ hist.rx = << << "K" >>, << "O", "K", "O" >> >>
  /\ hist.returned = Some(<< "K", "O", "K", "O" >>)
  /\ response = << "K", "O", "K", "O" >>

\* the sensor updates attempted by the loop, in order
C16_TickSends == SelectSeq(hist.written, LAMBDA w : w.site = "tick")

\* C16, in every state: the k-th update attempted by the loop is the command
\* of generate_walking_acceleration(k) and the k-th frame is drawn from the
\* same k; a frame never comes before its update, so updates minus frames is
\* 0 or 1; step_counter is the number of ticks that ran to their end.
C16_OneSendOneFramePerTick ==
  LET sends == Len(C16_TickSends)
      frames == term.calls
  IN /\ \A k \in 1..sends :
          /\ C16_TickSends[k].step = k - 1
          /\ C16_TickSends[k].text =
               << "sensor set", "acceleration", 0,
                  Fmt2(98000 + 2 * SinStep(k - 1)), 0 >>
     /\ Len(hist.adds) = frames
     /\ \A k \in 1..frames : hist.adds[k] = SinStep(k - 1)
     /\ frames > 0 => /\ term.args[1] = 98000 + 2 * SinStep(frames - 1)
                      /\ term.args[2] = SinStep(frames - 1)
     /\ sends - frames \in { 0, 1 }
     /\ step_counter \in { frames - 1, frames } /\ step_counter >= 0
     /\ pc = "tick_write" => (sends = step_counter /\ frames = step_counter)
     /\ pc \in { "tick_read", "tick_plot" } =>
          (sends = step_counter + 1 /\ frames = step_counter)
     /\ pc = "tick_update" =>
          (sends = step_counter + 1 /\ frames = step_counter + 1)

\* C16: step_counter starts at 0 (C16_OneSendOneFramePerTick before the
\* first tick), never decreases, and a step raises it by exactly 1 or leaves
\* it alone.
C16_StepCounter ==
  /\ []C16_OneSendOneFramePerTick
  /\ [][step_counter' \in { step_counter, step_counter + 1 }]_vars

\* three ticks have run to their end and a fourth has sent its update but
\* not yet drawn its frame
C16_Witness ==
  /\ pc = "tick_plot" /\ step_counter = 3
  /\ Len(C16_TickSends) = 4 /\ term.calls = 3

\* the N samples a frame shows, oldest first: the last N of N zeroes followed
\* by everything inserted so far
C17_Samples ==
  LET N == dual_graph.sine_width
      all == [i \in 1..N |-> 0] \o hist.adds
  IN SubSeq(all, Len(all) - N + 1, Len(all))
\* row r (0 is the top) is a nearest row of value v on a field of height H
C17_NearestRow(r, v, H) ==
  LET c == IF v < -Scale THEN -Scale ELSE IF v > Scale THEN Scale ELSE v
      diff == (Scale - c) * (H - 1) - 2 * Scale * r
  IN -Scale <= diff /\ diff <= Scale
\* the character of row r (from 0) in column i (from 0) of the field, which
\* starts after the six characters of the label
C17_Cell(r, i) == term.sine[r + 1].text[6 + i + 1]

\* C17: in every frame drawn after an insertion (capacity N, height >= 2,
\* range [-1, 1]) the sample at chronological position i is in column i, in
\* the row its value rounds to, as the character of its age N-i-1 (0 the
\* current point, 1..4 recent, 5..14 older, from 15 faintest); each column has
\* exactly one non-blank cell, the current point is there once, in the last
\* column, and the readout is on exactly its row; nothing else is left over
\* from earlier frames.
C17_TrailByAge ==
  LET N == dual_graph.sine_width
      H == dual_graph.sine_height
      marks(i) == { r \in 0..(H - 1) : C17_Cell(r, i) # " " }
      points == { rc \in (0..(H - 1)) \X (0..(N - 1)) : C17_Cell(rc[1], rc[2]) = "@" }
  IN (term.calls > 0 /\ H >= 2) =>
       /\ Len(term.sine) = H
       /\ \A r \in 0..(H - 1) : Len(term.sine[r + 1].text) = 6 + N
       /\ \A i \in 0..(N - 1) :
            /\ Cardinality(marks(i)) = 1
            /\ \A r \in marks(i) :
                 /\ C17_NearestRow(r, C17_Samples[i + 1], H)
                 /\ C17_Cell(r, i) =
                      ( CASE N - i - 1 = 0 -> "@"
                          [] N - i - 1 \in 1..4 -> "o"
                          [] N - i - 1 \in 5..14 -> ":"
                          [] OTHER -> "." )
       /\ Cardinality(points) = 1
       /\ \A rc \in points : rc[2] = N - 1
       /\ \A r \in 0..(H - 1) :
            term.sine[r + 1].readout # None <=> (<< r, N - 1 >> \in points)

\* a second frame of a 16 column field: the new sample is the current point
\* in the top row, the one before it a recent mark in the bottom row, and
\* the column of age 15 still shows the faintest mark
C17_Witness ==
  /\ term.calls = 2 /\ dual_graph.sine_width = 16 /\ dual_graph.sine_height = 5
  /\ hist.adds = << -Scale, Scale >>
  /\ C17_Cell(0, 15) = "@" /\ C17_Cell(4, 14) = "o" /\ C17_Cell(2, 0) = "."
  /\ C17_Cell(2, 5) = ":" /\ term.sine[1].readout = Some(100)

\* C19: when connect_to_emulator has returned None (connection failure,
\* missing token, refused token, error during the exchange), no socket it
\* opened is still open.
C19_NoSocketLeftOpen ==
  (pc = "done" /\ emulator = "None") => sock # "open"
====
